---- MODULE Spec2Model ----
(***************************************************************************)
(* OpenClaw usage dashboard: the session-log aggregation (log_parser.py),  *)
(* the provider layer (providers/*.py), the SQLite store (database.py) and *)
(* the sync driver (scheduler.py), as one state machine.                   *)
(*                                                                         *)
(* Strings that the code inspects by prefix or by glob are sequences of    *)
(* segments: the model name "claude-sonnet-4-6" is <<"claude-",            *)
(* "sonnet-4-6">>, the file name "s1.jsonl.reset.1" is <<"s1", "jsonl",    *)
(* "reset", "1">>.  Calendar dates are day numbers, costs are integers.    *)
(***************************************************************************)
EXTENDS Integers, Sequences, FiniteSets, TLC

\* ------------------------------------------------------------------ bounds
MaxPasses == 2     \* sync passes (sync_all or direct sync_provider) started
MaxLines == 1      \* lines present in the sessions directory at start
MaxAppends == 1    \* lines the agent runtime appends while the app runs
MaxTicks == 1      \* clock advances
MaxParseLines == 3 \* lines in the directory when the aggregation is applied alone
MaxSessionLines == 3 \* lines in the directory for the per-session and tool parsers
MaxItems == 3      \* toolCall items in the content of one message
MaxInits == 1      \* init_db runs after the one that created the database
MaxChecks == 3     \* check_and_alert calls

\* ------------------------------------------------------- program constants
SyncDays == 30     \* sync_all: timedelta(days=30)

\* ------------------------------------------------------------- providers
ALL_PROVIDERS == <<"anthropic", "google", "moonshot">>

Registered == {ALL_PROVIDERS[i] : i \in 1..Len(ALL_PROVIDERS)}

\* names a caller may pass to sync_provider: the registered ones and the
\* name of ToolProvider, which is not registered
CallNames == Registered \cup {"tools"}

MODEL_PREFIXES(p) ==
    CASE p = "anthropic" -> << <<"claude-">> >>
      [] p = "google"    -> << <<"gemini-">> >>
      [] p = "moonshot"  -> << <<"kimi-">>, <<"moonshot-">> >>

KeyVar(p) ==
    CASE p = "anthropic" -> "ANTHROPIC_API_KEY"
      [] p = "google"    -> "GEMINI_API_KEY"
      [] p = "moonshot"  -> "MOONSHOT_API_KEY"

EnvVars == {KeyVar(p) : p \in Registered}

\* what os.getenv(var, "") may return: "" for a variable that is unset (or
\* set to whitespace, here for GEMINI_API_KEY), or a key
EnvValues(var) ==
    IF var = "GEMINI_API_KEY" THEN {" ", "sk-key"} ELSE {"", "sk-key"}

\* str.strip() on the values above
strip(v) == IF v = " " THEN "" ELSE v

\* ------------------------------------------------------------ source lines
NoModel == <<>>
NoProvider == "<absent>"

\* A line of a session file.  json: "object" (a JSON object), "invalid"
\* (json.loads raises) or "array" (valid JSON that is not an object).
Line(file, pos, json, type, role, usage, provider, model, ts, inp, out, cr, cw, cost) ==
    [file |-> file, pos |-> pos, json |-> json, type |-> type, role |-> role,
     usage |-> usage, provider |-> provider, model |-> model, ts |-> ts,
     cost |-> cost, input |-> inp, output |-> out, cacheRead |-> cr,
     cacheWrite |-> cw]

\* timestamps: a parseable instant, or a missing/empty/unparseable string
At(day, hour) == [day |-> day, hour |-> hour, ok |-> TRUE]
NoTs == [day |-> 0, hour |-> 0, ok |-> FALSE]

Live1 == <<"s1", "jsonl">>
Reset2 == <<"s2", "jsonl", "reset", "1">>

Claude == <<"claude-", "sonnet-4-6">>
Gemini == <<"gemini-", "3-flash">>
Kimi == <<"kimi-", "k2.5">>

LineCatalog ==
    { Line(Live1, 1, "object", "message", "assistant", TRUE, "anthropic", Claude,
           At(40, 8), 2, 1, 3, 1, 2),
      Line(Live1, 2, "object", "message", "assistant", TRUE, "openrouter", Kimi,
           At(40, 8), 1, 1, 0, 0, 0),
      Line(Reset2, 1, "object", "message", "assistant", TRUE, "google", Gemini,
           At(39, 23), 3, 1, 0, 0, 0),
      Line(Reset2, 2, "object", "message", "assistant", TRUE, "anthropic", Claude,
           At(9, 8), 5, 5, 0, 0, 0) }

KimiClaude == <<"kimi-", "claude-", "x">>
Moon == <<"moonshot-", "v1">>
Deleted3 == <<"s3", "jsonl", "deleted", "1">>
Lock1 == <<"s1", "jsonl", "lock">>

\* the lines the aggregation is applied to when it runs on its own
ParseCatalog ==
    LineCatalog \cup
    { Line(Live1, 3, "object", "message", "assistant", TRUE, "moonshot", KimiClaude,
           NoTs, 1, 0, 2, 0, 0),
      Line(Live1, 4, "object", "message", "assistant", TRUE, "moonshot", Moon,
           At(40, 8), 1, 1, 1, 1, 1),
      Line(Reset2, 3, "object", "message", "assistant", TRUE, NoProvider, NoModel,
           At(40, 8), 1, 0, 0, 0, 0),
      Line(Reset2, 4, "object", "message", "user", FALSE, NoProvider, NoModel,
           At(40, 9), 0, 0, 0, 0, 0),
      Line(Reset2, 5, "object", "message", "assistant", TRUE, "anthropic", Claude,
           At(40, 8), 1, 1, 0, 0, 0),
      Line(Live1, 5, "object", "message", "assistant", TRUE, "google", Gemini,
           NoTs, 0, 0, 0, 0, 0),
      Line(Live1, 0, "invalid", "", "", FALSE, NoProvider, NoModel,
           NoTs, 0, 0, 0, 0, 0),
      Line(Deleted3, 1, "array", "", "", FALSE, NoProvider, NoModel,
           NoTs, 0, 0, 0, 0, 0),
      Line(Deleted3, 2, "object", "message", "assistant", TRUE, "google", Gemini,
           At(39, 23), 1, 2, 0, 0, 0),
      Line(Lock1, 1, "object", "message", "assistant", TRUE, "google", Gemini,
           At(40, 8), 4, 4, 0, 0, 0) }

\* ------------------------------------------------------- log_parser.py
\* a prefix test that accepts the prefix anywhere in the string
startswith_anywhere(s, prefix) ==
    \E k \in 0..(Len(s) - Len(prefix)) :
        \A i \in 1..Len(prefix) : s[k + i] = prefix[i]

\* str.startswith on segment sequences
startswith(s, prefix) ==
    /\ Len(prefix) <= Len(s)
    /\ \A i \in 1..Len(prefix) : s[i] = prefix[i]

\* _parse_date_hour: the UTC date and hour of a timestamp; a string that
\* does not parse yields the date and hour of the call
_parse_date_hour(ts, clock) ==
    IF ts.ok THEN [date |-> ts.day, hour |-> ts.hour]
    ELSE [date |-> clock.day, hour |-> clock.hour]

\* Path.glob(pattern) for the three patterns of parse_sessions
GlobLive(name) == Len(name) >= 2 /\ name[Len(name)] = "jsonl"
GlobSuffixed(name, word) ==
    \E i \in 2..Len(name) :
        /\ name[i] = "jsonl"
        /\ i + 2 <= Len(name)
        /\ name[i + 1] = word

\* the files that are scanned are the live files only
OccurrencesLiveOnly(name) == IF GlobLive(name) THEN 1 ELSE 0

\* how many times a file enters session_files: once per pattern it matches,
\* and not at all when its name ends in ".lock"
Occurrences(name) ==
    IF name[Len(name)] = "lock" THEN 0
    ELSE (IF GlobLive(name) THEN 1 ELSE 0)
       + (IF GlobSuffixed(name, "deleted") THEN 1 ELSE 0)
       + (IF GlobSuffixed(name, "reset") THEN 1 ELSE 0)

\* a non-object line makes record.get raise; the except clause around the
\* file then ends the reading of that file
Raises(l) == l.json = "array"
Reached(l, lines) ==
    ~ \E e \in lines : e.file = l.file /\ e.pos < l.pos /\ Raises(e)

ModelOf(l) == IF l.model = NoModel THEN <<"unknown">> ELSE l.model
ProviderOf(l) == IF l.provider = NoProvider THEN "unknown" ELSE l.provider

MatchesPrefixes(model, prefixes) ==
    Len(prefixes) = 0 \/ \E i \in 1..Len(prefixes) : startswith(model, prefixes[i])

\* a count that takes every event twice
CountTwice(S) == 2 * Cardinality(S)

\* the lines parse_sessions folds into a bucket
Qualifies(l, lines, prefixes, start, end, clock) ==
    /\ Occurrences(l.file) > 0
    /\ Reached(l, lines)
    /\ l.json = "object"
    /\ l.type = "message"
    /\ l.role = "assistant"
    /\ l.usage
    /\ MatchesPrefixes(ModelOf(l), prefixes)
    /\ _parse_date_hour(l.ts, clock).date >= start
    /\ _parse_date_hour(l.ts, clock).date <= end

AggKey(l, clock) ==
    <<ProviderOf(l), ModelOf(l), _parse_date_hour(l.ts, clock).date,
      _parse_date_hour(l.ts, clock).hour>>

RECURSIVE SumOver(_, _)
SumOver(S, fld) ==
    IF S = {} THEN 0
    ELSE LET l == CHOOSE x \in S : TRUE
         IN  Occurrences(l.file) * l[fld] + SumOver(S \ {l}, fld)

\* billable tokens with the cache reads counted in
real_t_with_cache(l) == l.input + l.output + l.cacheRead

\* real_t = input_t + output_t, per event
real_t(l) == l.input + l.output

RECURSIVE SumRealOver(_)
SumRealOver(S) ==
    IF S = {} THEN 0
    ELSE LET l == CHOOSE x \in S : TRUE
         IN  Occurrences(l.file) * real_t(l) + SumRealOver(S \ {l})

RECURSIVE CountOver(_)
CountOver(S) ==
    IF S = {} THEN 0
    ELSE LET l == CHOOSE x \in S : TRUE
         IN  Occurrences(l.file) + CountOver(S \ {l})

\* the order of Python's sorted() on the strings of the model
ProviderOrder == <<"anthropic", "google", "moonshot", "openrouter", "unknown">>
ModelOrder == <<Claude, Gemini, KimiClaude, Kimi, Moon, <<"unknown">> >>
Rank(x, order) == CHOOSE i \in 1..Len(order) : order[i] = x

KeyLess(a, b) ==
    LET ra == <<Rank(a[1], ProviderOrder), Rank(a[2], ModelOrder), a[3], a[4]>>
        rb == <<Rank(b[1], ProviderOrder), Rank(b[2], ModelOrder), b[3], b[4]>>
    IN  \E i \in 1..4 : ra[i] < rb[i] /\ \A j \in 1..(i - 1) : ra[j] = rb[j]

\* the keys in descending order
SortKeysDescending(K) ==
    IF K = {} THEN <<>>
    ELSE LET S == {q \in [1..Cardinality(K) -> K] :
                     \A i, j \in 1..Cardinality(K) : i < j => KeyLess(q[j], q[i])}
         IN  CHOOSE q \in S : TRUE

RECURSIVE SortKeys(_)
SortKeys(K) ==
    IF K = {} THEN <<>>
    ELSE LET m == CHOOSE k \in K : \A o \in K \ {k} : KeyLess(k, o)
         IN  <<m>> \o SortKeys(K \ {m})

\* parse_sessions, lines 96-110: the lines the scan reads; without the root
\* directory the call ends at once with the empty list, as it does when the
\* directory holds no session file
Scanned(exists, lines) == IF exists THEN lines ELSE {}

\* parse_sessions: one dict per (provider, model, date, hour), in key order
parse_sessions(lines, prefixes, start, end, clock) ==
    LET Q == {l \in lines : Qualifies(l, lines, prefixes, start, end, clock)}
        keys == SortKeys({AggKey(l, clock) : l \in Q})
        Of(k) == {l \in Q : AggKey(l, clock) = k}
    IN  [i \in 1..Len(keys) |->
            [provider |-> keys[i][1],
             model |-> keys[i][2],
             date |-> keys[i][3],
             hour |-> keys[i][4],
             input_tokens |-> SumOver(Of(keys[i]), "input"),
             output_tokens |-> SumOver(Of(keys[i]), "output"),
             cache_read_tokens |-> SumOver(Of(keys[i]), "cacheRead"),
             cache_write_tokens |-> SumOver(Of(keys[i]), "cacheWrite"),
             real_tokens |-> SumRealOver(Of(keys[i])),
             request_count |-> CountOver(Of(keys[i])),
             estimated_cost_usd |-> SumOver(Of(keys[i]), "cost")]]

\* ------------------------------------------------- providers/*.py
\* a check that takes every provider for configured
is_configured_always(p, envv) == TRUE

\* BaseProvider.is_configured of the three registered classes
is_configured(p, envv) == strip(envv[KeyVar(p)]) # ""

\* the fields of the UsageRecord dataclass
UsageRecordFields ==
    {"provider", "model", "date", "input_tokens", "output_tokens",
     "total_tokens", "request_count", "estimated_cost_usd"}

\* the keys each fetch_usage reads from a parse_sessions dict and passes,
\* under the same names, as keyword arguments to UsageRecord
ProviderReads(p) ==
    CASE p = "anthropic" ->
            {"provider", "model", "date", "hour", "input_tokens",
             "output_tokens", "cache_read_tokens", "real_tokens",
             "request_count", "estimated_cost_usd"}
      [] p = "google" ->
            {"provider", "model", "date", "hour", "input_tokens",
             "output_tokens", "cache_read_tokens", "cache_write_tokens",
             "real_tokens", "request_count", "estimated_cost_usd"}
      [] p = "moonshot" ->
            {"provider", "model", "date", "input_tokens", "output_tokens",
             "total_tokens", "request_count", "estimated_cost_usd"}

Returned(recs) == [raised |-> FALSE, err |-> "", records |-> recs]
Raised(err) == [raised |-> TRUE, err |-> err, records |-> <<>>]

\* a fetch that fails when the aggregation has nothing for the provider
fetch_usage_requires_data(p, envv, lines, start, end, clock) ==
    IF ~ is_configured(p, envv) THEN Returned(<<>>)
    ELSE IF Len(parse_sessions(lines, MODEL_PREFIXES(p), start, end, clock)) = 0
         THEN Raised("LookupError")
    ELSE Raised("TypeError")

\* fetch_usage: the buckets of parse_sessions, each turned into a
\* UsageRecord.  r["k"] raises KeyError for a key the dict lacks; the
\* dataclass constructor raises TypeError unless the keywords are exactly
\* its fields.
fetch_usage(p, envv, lines, start, end, clock) ==
    IF ~ is_configured(p, envv) THEN Returned(<<>>)
    ELSE LET raw == parse_sessions(lines, MODEL_PREFIXES(p), start, end, clock)
         IN  IF Len(raw) = 0 THEN Returned(<<>>)
             ELSE IF ~ (ProviderReads(p) \subseteq DOMAIN raw[1])
                  THEN Raised("KeyError")
             ELSE IF ProviderReads(p) # UsageRecordFields
                  THEN Raised("TypeError")
             ELSE Returned([i \in 1..Len(raw) |->
                               [f \in ProviderReads(p) |-> raw[i][f]]])

\* ------------------------------------------------------- database.py
\* the named parameters of the INSERT of upsert_usage_record
UpsertBindings ==
    {"provider", "model", "date", "hour", "input_tokens", "output_tokens",
     "cache_read_tokens", "cache_write_tokens", "real_tokens",
     "request_count", "estimated_cost_usd", "synced_at"}

RowKey(record) ==
    <<record["provider"], record["model"], record["date"], record["hour"]>>

\* upsert_usage_record: execute() raises when the dict lacks a named
\* parameter; otherwise the row at the composite key is inserted, or all
\* its columns are replaced by the new values
upsert_usage_record(table, record) ==
    IF ~ (UpsertBindings \subseteq DOMAIN record)
    THEN [raised |-> TRUE, table |-> table]
    ELSE [raised |-> FALSE,
          table |-> [k \in DOMAIN table \cup {RowKey(record)} |->
                        IF k = RowKey(record)
                        THEN [c \in UpsertBindings |-> record[c]]
                        ELSE table[k]]]

\* insert_sync_log: one more row at the end of sync_log (the values of the
\* id and synced_at columns are not modelled)
insert_sync_log(log, provider, status, message) ==
    Append(log, [provider |-> provider, status |-> status, message |-> message])

RECURSIVE ApplyUpserts(_, _)
ApplyUpserts(table, rows) ==
    IF rows = <<>> THEN table
    ELSE ApplyUpserts(upsert_usage_record(table, Head(rows)).table, Tail(rows))

\* SEED_PRICING: model, display name and the four prices per million
\* tokens, here in ten-thousandths of a dollar; a display name is a
\* sequence, as a model name is, so that it can fall back to the model name
Opus == <<"claude-", "opus-4-6">>
KimiThinking == <<"kimi-", "k2-thinking">>
GeminiFlash == <<"gemini-", "3-flash-preview">>
GeminiPro == <<"gemini-", "3-pro-preview">>

SEED_PRICING ==
    << <<Opus, <<"Claude Opus 4.6">>, 50000, 250000, 5000, 62500>>,
       <<Claude, <<"Claude Sonnet 4.6">>, 30000, 150000, 3000, 37500>>,
       <<Kimi, <<"Kimi K2.5">>, 6000, 30000, 1500, 6000>>,
       <<KimiThinking, <<"Kimi K2 Thinking">>, 6000, 30000, 1500, 6000>>,
       <<GeminiFlash, <<"Gemini 3 Flash">>, 1000, 4000, 250, 1000>>,
       <<GeminiPro, <<"Gemini 3 Pro">>, 12500, 50000, 3125, 12500>> >>

\* a row of model_pricing (the updated_at column is not modelled)
PricingRow(display_name, input_per_m, output_per_m, cache_read_per_m, cache_write_per_m) ==
    [display_name |-> display_name, input_per_m |-> input_per_m,
     output_per_m |-> output_per_m, cache_read_per_m |-> cache_read_per_m,
     cache_write_per_m |-> cache_write_per_m]

\* a seeding that writes the defaults over whatever rows it finds
seed_default_pricing_replacing(table) ==
    LET seeded == {SEED_PRICING[i][1] : i \in 1..Len(SEED_PRICING)}
    IN  [m \in DOMAIN table \cup seeded |->
            IF m \in seeded
            THEN LET r == SEED_PRICING[CHOOSE i \in 1..Len(SEED_PRICING) :
                                          SEED_PRICING[i][1] = m]
                 IN  PricingRow(r[2], r[3], r[4], r[5], r[6])
            ELSE table[m]]

\* seed_default_pricing: the table is left alone when it holds a row;
\* into an empty table every SEED_PRICING row is inserted
seed_default_pricing(table) ==
    IF Cardinality(DOMAIN table) > 0 THEN table
    ELSE [m \in {SEED_PRICING[i][1] : i \in 1..Len(SEED_PRICING)} |->
             LET r == SEED_PRICING[CHOOSE i \in 1..Len(SEED_PRICING) :
                                      SEED_PRICING[i][1] = m]
             IN  PricingRow(r[2], r[3], r[4], r[5], r[6])]

\* upsert_pricing: INSERT OR REPLACE of the row of the model
upsert_pricing(table, model, row) ==
    [m \in DOMAIN table \cup {model} |-> IF m = model THEN row ELSE table[m]]

\* delete_pricing: the table without the model's row, and the row count
delete_pricing(table, model) ==
    [table |-> [m \in DOMAIN table \ {model} |-> table[m]],
     rowcount |-> IF model \in DOMAIN table THEN 1 ELSE 0]

\* the rows seed_default_settings inserts
DefaultSettings ==
    [k \in {"session_cost_warning_usd", "alert_whatsapp_enabled",
            "alert_whatsapp_to", "alert_last_session_id"} |->
        CASE k = "session_cost_warning_usd" -> "5.0"
          [] k = "alert_whatsapp_enabled" -> "false"
          [] k = "alert_whatsapp_to" -> "+351910298749"
          [] k = "alert_last_session_id" -> ""]

\* seed_default_settings: INSERT OR IGNORE of each default, so a key that
\* has a row keeps its value
seed_default_settings(table) ==
    [k \in DOMAIN table \cup DOMAIN DefaultSettings |->
        IF k \in DOMAIN table THEN table[k] ELSE DefaultSettings[k]]

\* get_setting: the value of the key, or the default when it has no row
get_setting(table, key, default) ==
    IF key \in DOMAIN table THEN table[key] ELSE default

\* set_setting: INSERT OR REPLACE of the row of the key
set_setting(table, key, value) ==
    [k \in DOMAIN table \cup {key} |-> IF k = key THEN value ELSE table[k]]

\* ------------------------------------------------------- scheduler.py
\* next((p for p in ALL_PROVIDERS if p.name == provider_name), None)
None == "<none>"

\* a lookup that falls back to the first registered provider
LookupProviderFirst(name) ==
    IF name \in Registered THEN name ELSE ALL_PROVIDERS[1]

LookupProvider(name) == IF name \in Registered THEN name ELSE None

\* "except Exception" around fetch_usage catches whatever it raises
Caught(err) == TRUE

\* the attributes sync_provider reads from a record, and the dict it
\* hands to upsert_usage_record
SyncRecordAttrs ==
    {"provider", "model", "date", "input_tokens", "output_tokens",
     "total_tokens", "request_count", "estimated_cost_usd"}

RecordDict(rec) ==
    [k \in SyncRecordAttrs \cup {"synced_at"} |->
        IF k = "synced_at" THEN "synced_at" ELSE rec[k]]

OkMessage(records) == [text |-> "records upserted", n |-> Len(records)]
ErrMessage(err) == [text |-> err, n |-> 0]

\* the lines whose model carries one of the provider's prefixes
OwnLines(p, lines) ==
    {l \in lines : MatchesPrefixes(ModelOf(l), MODEL_PREFIXES(p))}

Outcome(status, n) == [records |-> n, status |-> status]

Tasks == {"timer", "manual", "direct"}
SyncAllTasks == {"timer", "manual"}
NoTx == [usage |-> <<>>, log |-> <<>>]
NoCall == [raised |-> FALSE, err |-> "", records |-> <<>>, raw |-> <<>>,
           remaining |-> <<>>, alone |-> Outcome("", 0), root |-> TRUE,
           lost |-> NoTx]
NoOut == [op |-> "", args |-> <<>>, at |-> <<>>, result |-> <<>>]

VARIABLES
    env,            \* environment variables of the process
    files,          \* the lines of the files in the sessions directory
    clock,          \* current UTC date and hour
    usage_records,  \* committed rows of usage_records, by composite key
    sync_log,       \* committed rows of sync_log, in id order
    pc,             \* where each task stands
    exc,            \* the exception that ended the task's pass, if any
    work,           \* provider names the task's pass has still to sync
    range,          \* start_date and end_date of the task's pass
    cur,            \* locals of the task's running sync_provider call, with
                    \* the buckets its aggregation produced (raw), the
                    \* outcome the provider's own lines alone give (alone)
                    \* whether its fetch found the root directory (root) and
                    \* the writes a failed store call made it lose (lost)
    tx,             \* uncommitted writes of the task's connection
    results,        \* what the sync_provider calls of the pass returned
    passes,         \* passes started
    appends,        \* lines appended
    ticks,          \* clock advances
    fetched,        \* providers whose fetch_usage has been called
    produced,       \* composite keys each provider's aggregation has produced
    init_runs,      \* per init_db run after the first: the sync_log it found
    out,            \* the last call of a function applied on its own, with
                    \* what it returned
    sessions_dir,   \* whether the sessions root directory exists
    model_pricing,  \* committed rows of model_pricing, by model
    settings,       \* committed rows of settings, by key
    locks           \* session ids that have a .jsonl.lock file

vars == <<env, files, clock, usage_records, sync_log, pc, exc, work, range,
          cur, tx, results, passes, appends, ticks, fetched, produced,
          init_runs, out, sessions_dir, model_pricing, settings, locks>>

shared == <<env, files, clock, appends, ticks>>

EnvChoices ==
    {e \in [EnvVars -> {"", " ", "sk-key"}] : \A v \in EnvVars : e[v] \in EnvValues(v)}

\* state after init_db: usage_records dropped and recreated, no task running
Init ==
    /\ env \in EnvChoices
    /\ files \in {F \in SUBSET LineCatalog : Cardinality(F) <= MaxLines}
    /\ clock = [day |-> 40, hour |-> 23]
    /\ usage_records = <<>>
    /\ sync_log = <<>>
    /\ pc = [t \in Tasks |-> "idle"]
    /\ exc = [t \in Tasks |-> ""]
    /\ work = [t \in Tasks |-> <<>>]
    /\ range = [t \in Tasks |-> [start |-> 0, end |-> 0]]
    /\ cur = [t \in Tasks |-> NoCall]
    /\ tx = [t \in Tasks |-> NoTx]
    /\ results = [t \in Tasks |-> <<>>]
    /\ passes = 0
    /\ appends = 0
    /\ ticks = 0
    /\ fetched = {}
    /\ produced = [p \in Registered |-> {}]
    /\ init_runs = <<>>
    /\ out = NoOut
    /\ sessions_dir = TRUE
    /\ model_pricing = seed_default_pricing(<<>>)
    /\ settings = seed_default_settings(<<>>)
    /\ locks = {}

Ended(t) == pc[t] \in {"idle", "done", "raised"}

StartPass(t, names, days) ==
    /\ Ended(t)
    /\ passes < MaxPasses
    /\ passes' = passes + 1
    /\ pc' = [pc EXCEPT ![t] = "call"]
    /\ exc' = [exc EXCEPT ![t] = ""]
    /\ work' = [work EXCEPT ![t] = names]
    /\ range' = [range EXCEPT ![t] =
                    [start |-> clock.day - days, end |-> clock.day]]
    /\ results' = [results EXCEPT ![t] = <<>>]
    /\ cur' = [cur EXCEPT ![t] = NoCall]
    /\ UNCHANGED <<shared, usage_records, sync_log, tx, fetched, produced>>
    /\ UNCHANGED <<init_runs, out, sessions_dir, model_pricing, settings,
                   locks>>

\* sync_all, started by the scheduler's interval job or by POST /api/sync
StartSyncAll(t) ==
    /\ t \in SyncAllTasks
    /\ StartPass(t, ALL_PROVIDERS, SyncDays)

\* sync_provider called on its own, with any name: scripts/sync_now.py
\* --provider passes the registered names, other callers of the function
\* may pass any string
StartSyncProvider(t, name) ==
    /\ t = "direct"
    /\ StartPass(t, <<name>>, SyncDays)

\* the status dict a sync_provider call returns; alone is the outcome the
\* provider's own lines give when no other line is in the directory
Result(name, status, n, alone) ==
    [provider |-> name, status |-> status, records |-> n, alone |-> alone]

\* a loop that gives up at the first "error" outcome
ReturnStopOnError(t, res) ==
    /\ results' = [results EXCEPT ![t] = Append(@, res)]
    /\ work' = [work EXCEPT ![t] = IF res.status = "error" THEN <<>> ELSE Tail(@)]
    /\ pc' = [pc EXCEPT ![t] =
                IF Len(work[t]) = 1 \/ res.status = "error" THEN "done" ELSE "call"]
    /\ cur' = [cur EXCEPT ![t] = NoCall]

\* a sync_provider call returns: its result joins those of the pass, and
\* the caller's loop moves to the next provider or ends
Return(t, res) ==
    /\ results' = [results EXCEPT ![t] = Append(@, res)]
    /\ work' = [work EXCEPT ![t] = Tail(@)]
    /\ pc' = [pc EXCEPT ![t] = IF Len(work[t]) = 1 THEN "done" ELSE "call"]
    /\ cur' = [cur EXCEPT ![t] = NoCall]

\* an exception leaves sync_provider and the caller's loop; the connection,
\* if one is open, closes without a commit
Propagate(t, err) ==
    /\ tx' = [tx EXCEPT ![t] = NoTx]
    /\ pc' = [pc EXCEPT ![t] = "raised"]
    /\ exc' = [exc EXCEPT ![t] = err]

\* sync_provider, lines 34-36: no registered provider has the name
CallUnknown(t) ==
    /\ pc[t] = "call"
    /\ LookupProvider(Head(work[t])) = None
    /\ Return(t, Result(Head(work[t]), "error", 0, Outcome("error", 0)))
    /\ UNCHANGED <<shared, usage_records, sync_log, exc, range, tx, passes,
                   fetched, produced>>
    /\ UNCHANGED <<init_runs, out, sessions_dir, model_pricing, settings,
                   locks>>

\* a skip that also writes a "skipped" row to sync_log
CallSkippedLogged(t) ==
    /\ pc[t] = "call"
    /\ LookupProvider(Head(work[t])) # None
    /\ ~ is_configured(LookupProvider(Head(work[t])), env)
    /\ sync_log' = insert_sync_log(sync_log, Head(work[t]), "skipped",
                                   ErrMessage("not configured"))
    /\ Return(t, Result(Head(work[t]), "skipped", 0, Outcome("skipped", 0)))
    /\ UNCHANGED <<shared, usage_records, exc, range, tx, passes, fetched,
                   produced>>
    /\ UNCHANGED <<init_runs, out, sessions_dir, model_pricing, settings,
                   locks>>

\* sync_provider, lines 38-41: the provider is not configured
CallSkipped(t) ==
    /\ pc[t] = "call"
    /\ LookupProvider(Head(work[t])) # None
    /\ ~ is_configured(LookupProvider(Head(work[t])), env)
    /\ Return(t, Result(Head(work[t]), "skipped", 0, Outcome("skipped", 0)))
    /\ UNCHANGED <<shared, usage_records, sync_log, exc, range, tx, passes,
                   fetched, produced>>
    /\ UNCHANGED <<init_runs, out, sessions_dir, model_pricing, settings,
                   locks>>

\* sync_provider, lines 43-49 and 54: fetch_usage, then a connection is
\* opened either to log the failure or to persist the records
CallFetch(t) ==
    /\ pc[t] = "call"
    /\ LookupProvider(Head(work[t])) # None
    /\ is_configured(LookupProvider(Head(work[t])), env)
    /\ LET p == LookupProvider(Head(work[t]))
           seen == Scanned(sessions_dir, files)
           r == fetch_usage(p, env, seen, range[t].start, range[t].end, clock)
           a == fetch_usage(p, env, OwnLines(p, seen), range[t].start,
                            range[t].end, clock)
           raw == parse_sessions(seen, MODEL_PREFIXES(p), range[t].start,
                                 range[t].end, clock)
       IN  /\ fetched' = fetched \cup {p}
           /\ produced' = [produced EXCEPT ![p] =
                             @ \cup {RowKey(raw[i]) : i \in 1..Len(raw)}]
           /\ IF r.raised /\ ~ Caught(r.err)
              THEN /\ Propagate(t, r.err)
                   /\ cur' = cur
              ELSE /\ cur' = [cur EXCEPT ![t] =
                                [raised |-> r.raised, err |-> r.err,
                                 records |-> r.records, remaining |-> r.records,
                                 raw |-> raw,
                                 alone |-> Outcome(IF a.raised THEN "error" ELSE "ok",
                                                   Len(a.records)),
                                 root |-> sessions_dir, lost |-> NoTx]]
                   /\ pc' = [pc EXCEPT ![t] =
                               IF r.raised THEN "err_conn" ELSE "ok_conn"]
                   /\ UNCHANGED <<tx, exc>>
    /\ UNCHANGED <<shared, usage_records, sync_log, work, range, results, passes>>
    /\ UNCHANGED <<init_runs, out, sessions_dir, model_pricing, settings,
                   locks>>

\* SQLite admits one writing connection at a time
MayWrite(t) == \A u \in Tasks \ {t} : tx[u] = NoTx

\* sync_provider, line 50: the failure is written to sync_log
LogError(t) ==
    /\ pc[t] = "err_conn"
    /\ MayWrite(t)
    /\ tx' = [tx EXCEPT ![t].log =
                insert_sync_log(@, Head(work[t]), "error", ErrMessage(cur[t].err))]
    /\ pc' = [pc EXCEPT ![t] = "err_logged"]
    /\ UNCHANGED <<shared, usage_records, sync_log, exc, work, range, cur,
                   results, passes, fetched, produced>>
    /\ UNCHANGED <<init_runs, out, sessions_dir, model_pricing, settings,
                   locks>>

\* sync_provider, lines 55-67: one upsert per record, then the "ok" row
PersistStep(t) ==
    /\ pc[t] = "ok_conn"
    /\ MayWrite(t)
    /\ IF cur[t].remaining # <<>>
       THEN LET rec == Head(cur[t].remaining)
            IN  IF ~ (SyncRecordAttrs \subseteq DOMAIN rec)
                THEN Propagate(t, "AttributeError") /\ cur' = cur
                ELSE IF upsert_usage_record(usage_records, RecordDict(rec)).raised
                THEN Propagate(t, "ProgrammingError") /\ cur' = cur
                ELSE /\ tx' = [tx EXCEPT ![t].usage = Append(@, RecordDict(rec))]
                     /\ cur' = [cur EXCEPT ![t].remaining = Tail(@)]
                     /\ UNCHANGED <<pc, exc>>
       ELSE /\ tx' = [tx EXCEPT ![t].log =
                        insert_sync_log(@, Head(work[t]), "ok",
                                        OkMessage(cur[t].records))]
            /\ pc' = [pc EXCEPT ![t] = "ok_logged"]
            /\ UNCHANGED <<cur, exc>>
    /\ UNCHANGED <<shared, usage_records, sync_log, work, range, results,
                   passes, fetched, produced>>
    /\ UNCHANGED <<init_runs, out, sessions_dir, model_pricing, settings,
                   locks>>

\* a commit whose error branch lacks the return and falls into the
\* persisting block
CommitFallThrough(t) ==
    /\ pc[t] \in {"err_logged", "ok_logged"}
    /\ usage_records' = ApplyUpserts(usage_records, tx[t].usage)
    /\ sync_log' = sync_log \o tx[t].log
    /\ tx' = [tx EXCEPT ![t] = NoTx]
    /\ IF pc[t] = "err_logged"
       THEN /\ pc' = [pc EXCEPT ![t] = "ok_conn"]
            /\ UNCHANGED <<results, work, cur>>
       ELSE Return(t, Result(Head(work[t]), "ok", Len(cur[t].records),
                             cur[t].alone))
    /\ UNCHANGED <<shared, exc, range, passes, fetched, produced>>
    /\ UNCHANGED <<init_runs, out, sessions_dir, model_pricing, settings,
                   locks>>

\* sync_provider, lines 51-52 and 68-71: commit, close, return the status
Commit(t) ==
    /\ pc[t] \in {"err_logged", "ok_logged"}
    /\ usage_records' = ApplyUpserts(usage_records, tx[t].usage)
    /\ sync_log' = sync_log \o tx[t].log
    /\ tx' = [tx EXCEPT ![t] = NoTx]
    /\ Return(t, Result(Head(work[t]),
                        IF pc[t] = "err_logged" THEN "error" ELSE "ok",
                        Len(cur[t].records), cur[t].alone))
    /\ UNCHANGED <<shared, exc, range, passes, fetched, produced>>
    /\ UNCHANGED <<init_runs, out, sessions_dir, model_pricing, settings,
                   locks>>

\* a failing store call after which the pending writes of the connection
\* are in the tables all the same
StoreFailCommitting(t) ==
    /\ pc[t] \in {"err_conn", "ok_conn", "err_logged", "ok_logged"}
    /\ Propagate(t, "OperationalError")
    /\ cur' = [cur EXCEPT ![t].lost = tx[t]]
    /\ usage_records' = ApplyUpserts(usage_records, tx[t].usage)
    /\ sync_log' = sync_log \o tx[t].log
    /\ UNCHANGED <<shared, work, range, results, passes, fetched, produced>>
    /\ UNCHANGED <<init_runs, out, sessions_dir, model_pricing, settings,
                   locks>>

\* a store call (connect, execute or commit) fails: I/O error, locked file
StoreFail(t) ==
    /\ pc[t] \in {"err_conn", "ok_conn", "err_logged", "ok_logged"}
    /\ Propagate(t, "OperationalError")
    /\ cur' = [cur EXCEPT ![t].lost = tx[t]]
    /\ UNCHANGED <<shared, usage_records, sync_log, work, range, results,
                   passes, fetched, produced>>
    /\ UNCHANGED <<init_runs, out, sessions_dir, model_pricing, settings,
                   locks>>

\* the agent runtime writes one more line to a session file, in a sessions
\* directory it creates when there is none
AppendLine(l) ==
    /\ appends < MaxAppends
    /\ l \in LineCatalog \ files
    /\ files' = files \cup {l}
    /\ appends' = appends + 1
    /\ UNCHANGED <<env, clock, ticks, usage_records, sync_log, pc, exc, work,
                   range, cur, tx, results, passes, fetched, produced>>
    /\ sessions_dir' = TRUE
    /\ UNCHANGED <<init_runs, out, model_pricing, settings, locks>>

\* time passes: the next hour, which here is the next day
Tick ==
    /\ ticks < MaxTicks
    /\ ticks' = ticks + 1
    /\ clock' = IF clock.hour = 23 THEN [day |-> clock.day + 1, hour |-> 0]
                ELSE [day |-> clock.day, hour |-> clock.hour + 1]
    /\ UNCHANGED <<env, files, appends, usage_records, sync_log, pc, exc, work,
                   range, cur, tx, results, passes, fetched, produced>>
    /\ UNCHANGED <<init_runs, out, sessions_dir, model_pricing, settings,
                   locks>>

Next ==
    \/ \E t \in Tasks : StartSyncAll(t)
    \/ \E t \in Tasks, name \in CallNames : StartSyncProvider(t, name)
    \/ \E t \in Tasks : CallUnknown(t)
    \/ \E t \in Tasks : CallSkipped(t)
    \/ \E t \in Tasks : CallFetch(t)
    \/ \E t \in Tasks : LogError(t)
    \/ \E t \in Tasks : PersistStep(t)
    \/ \E t \in Tasks : Commit(t)
    \/ \E t \in Tasks : StoreFail(t)
    \/ \E l \in LineCatalog : AppendLine(l)
    \/ Tick

Spec == Init /\ [][Next]_vars

\* ------------------------------------------- the store across init_db runs
\* a set-up that drops and recreates sync_log as it does usage_records
init_db_drop_all ==
    /\ Len(init_runs) < MaxInits
    /\ \A t \in Tasks : tx[t] = NoTx
    /\ usage_records' = <<>>
    /\ sync_log' = <<>>
    /\ model_pricing' = seed_default_pricing(model_pricing)
    /\ settings' = seed_default_settings(settings)
    /\ init_runs' = Append(init_runs, sync_log)
    /\ out' = [op |-> "init_db", args |-> <<model_pricing>>, at |-> clock,
               result |-> seed_default_pricing(model_pricing)]
    /\ UNCHANGED <<shared, pc, exc, work, range, cur, tx, results, passes,
                   fetched, produced, sessions_dir, locks>>

\* init_db, run again while the database file exists: by a restart of the
\* app (main.py on_startup) or by scripts/sync_now.py next to the running
\* app.  usage_records is dropped and recreated; sync_log, created only IF
\* NOT EXISTS, is left as found; model_pricing and settings are seeded.  The script takes
\* the write lock, so no other connection has uncommitted writes.
init_db ==
    /\ Len(init_runs) < MaxInits
    /\ \A t \in Tasks : tx[t] = NoTx
    /\ usage_records' = <<>>
    /\ model_pricing' = seed_default_pricing(model_pricing)
    /\ settings' = seed_default_settings(settings)
    /\ init_runs' = Append(init_runs, sync_log)
    /\ out' = [op |-> "init_db", args |-> <<model_pricing>>, at |-> clock,
               result |-> seed_default_pricing(model_pricing)]
    /\ UNCHANGED <<shared, sync_log, pc, exc, work, range, cur, tx, results,
                   passes, fetched, produced, sessions_dir, locks>>

\* the app with an empty sessions directory and the keys of the last two
\* providers set
InitLog ==
    /\ Init
    /\ files = {}
    /\ \A v \in EnvVars \ {KeyVar(ALL_PROVIDERS[1])} : strip(env[v]) # ""

NextLog ==
    \/ Next
    \/ init_db

SpecLog == InitLog /\ [][NextLog]_vars

\* ------------------------------------------------ the pricing endpoints
\* PRICING of pricing.py: input, output, cache_read and cache_write price
\* per million tokens, in ten-thousandths of a dollar
PRICING ==
    [m \in {Opus, Claude, Kimi, KimiThinking, GeminiFlash, GeminiPro} |->
        CASE m = Opus -> [input |-> 150000, output |-> 750000,
                          cache_read |-> 15000, cache_write |-> 187500]
          [] m = Claude -> [input |-> 30000, output |-> 150000,
                            cache_read |-> 3000, cache_write |-> 37500]
          [] m \in {Kimi, KimiThinking} ->
                [input |-> 6000, output |-> 30000,
                 cache_read |-> 1500, cache_write |-> 6000]
          [] m = GeminiFlash -> [input |-> 1000, output |-> 4000,
                                 cache_read |-> 250, cache_write |-> 1000]
          [] m = GeminiPro -> [input |-> 12500, output |-> 50000,
                               cache_read |-> 3125, cache_write |-> 12500]]

\* estimate_cost(model, input_tokens, output_tokens, cache_read_tokens,
\* cache_write_tokens=0), applied to a sequence of positional arguments: a
\* call with fewer than four or more than five raises TypeError; the cost
\* comes from PRICING, in units of 10^-10 dollar, and is 0 for a model
\* PRICING does not list
estimate_cost(args) ==
    IF Len(args) < 4 \/ Len(args) > 5 THEN [raised |-> TRUE, cost |-> 0]
    ELSE IF args[1] \notin DOMAIN PRICING THEN [raised |-> FALSE, cost |-> 0]
    ELSE [raised |-> FALSE,
          cost |-> args[2] * PRICING[args[1]].input
                   + args[3] * PRICING[args[1]].output
                   + args[4] * PRICING[args[1]].cache_read
                   + (IF Len(args) = 5 THEN args[5] ELSE 0)
                       * PRICING[args[1]].cache_write]

\* a model name outside SEED_PRICING
Custom == <<"gpt-", "x">>

\* the models of the PUT requests, and their bodies (PricingUpdate): no
\* display name and two prices, or a display name and four prices
PutModels == {Opus, Kimi, Custom}
PricingBodies ==
    { [display_name |-> <<>>, input_per_m |-> 10000, output_per_m |-> 20000,
       cache_read_per_m |-> 0, cache_write_per_m |-> 0],
      [display_name |-> <<"Mine">>, input_per_m |-> 20000,
       output_per_m |-> 80000, cache_read_per_m |-> 2000,
       cache_write_per_m |-> 25000] }
DeleteModels == {SEED_PRICING[i][1] : i \in 1..Len(SEED_PRICING)} \cup {Custom}

\* PUT /api/pricing/{model}: the row is upserted and the cost of every
\* usage_records row of the model recomputed, all in one transaction; an
\* exception closes the connection before the commit
update_pricing(model, body) ==
    /\ \A t \in Tasks : tx[t] = NoTx
    /\ LET display_name == IF body.display_name = <<>> THEN model
                           ELSE body.display_name
           pricing_row == [input_per_m |-> body.input_per_m,
                           output_per_m |-> body.output_per_m,
                           cache_read_per_m |-> body.cache_read_per_m,
                           cache_write_per_m |-> body.cache_write_per_m]
           records == {k \in DOMAIN usage_records :
                          usage_records[k].model = model}
           cost == [k \in records |->
                      estimate_cost(<<model, pricing_row,
                                      usage_records[k].input_tokens,
                                      usage_records[k].output_tokens,
                                      usage_records[k].cache_read_tokens,
                                      usage_records[k].cache_write_tokens>>)]
       IN  IF \E k \in records : cost[k].raised
           THEN /\ UNCHANGED <<model_pricing, usage_records>>
                /\ out' = [op |-> "update_pricing", args |-> <<model, body>>,
                           at |-> clock,
                           result |-> [raised |-> TRUE, records_updated |-> 0]]
           ELSE /\ model_pricing' =
                      upsert_pricing(model_pricing, model,
                          PricingRow(display_name, body.input_per_m,
                                     body.output_per_m, body.cache_read_per_m,
                                     body.cache_write_per_m))
                /\ usage_records' =
                      [k \in DOMAIN usage_records |->
                          IF k \in records
                          THEN [usage_records[k] EXCEPT
                                   !.estimated_cost_usd = cost[k].cost]
                          ELSE usage_records[k]]
                /\ out' = [op |-> "update_pricing", args |-> <<model, body>>,
                           at |-> clock,
                           result |-> [raised |-> FALSE,
                                       records_updated |-> Cardinality(records)]]
    /\ UNCHANGED <<shared, sync_log, pc, exc, work, range, cur, tx, results,
                   passes, fetched, produced, init_runs, sessions_dir,
                   settings, locks>>

\* DELETE /api/pricing/{model}: the row is deleted and the delete
\* committed; a model without a row is answered with 404
remove_pricing(model) ==
    /\ \A t \in Tasks : tx[t] = NoTx
    /\ model_pricing' = delete_pricing(model_pricing, model).table
    /\ out' = [op |-> "remove_pricing", args |-> <<model>>, at |-> clock,
               result |-> [raised |-> delete_pricing(model_pricing, model).rowcount = 0,
                           records_updated |-> 0]]
    /\ UNCHANGED <<shared, usage_records, sync_log, pc, exc, work, range, cur,
                   tx, results, passes, fetched, produced, init_runs,
                   sessions_dir, settings, locks>>

\* the app after its first start, all providers configured, no session file
InitPricing ==
    /\ Init
    /\ files = {}
    /\ \A v \in EnvVars : strip(env[v]) # ""

NextPricing ==
    \/ \E m \in PutModels, body \in PricingBodies : update_pricing(m, body)
    \/ \E m \in DeleteModels : remove_pricing(m)
    \/ init_db

SpecPricing == InitPricing /\ [][NextPricing]_vars

\* ------------------------------------- the app without a sessions directory
InitAbsent ==
    /\ env \in EnvChoices
    /\ files = {}
    /\ sessions_dir = FALSE
    /\ model_pricing = seed_default_pricing(<<>>)
    /\ settings = seed_default_settings(<<>>)
    /\ locks = {}
    /\ clock = [day |-> 40, hour |-> 23]
    /\ usage_records = <<>>
    /\ sync_log = <<>>
    /\ pc = [t \in Tasks |-> "idle"]
    /\ exc = [t \in Tasks |-> ""]
    /\ work = [t \in Tasks |-> <<>>]
    /\ range = [t \in Tasks |-> [start |-> 0, end |-> 0]]
    /\ cur = [t \in Tasks |-> NoCall]
    /\ tx = [t \in Tasks |-> NoTx]
    /\ results = [t \in Tasks |-> <<>>]
    /\ passes = 0
    /\ appends = 0
    /\ ticks = 0
    /\ fetched = {}
    /\ produced = [p \in Registered |-> {}]
    /\ init_runs = <<>>
    /\ out = NoOut

SpecAbsent == InitAbsent /\ [][Next]_vars

\* --------------------------------------- the aggregation applied on its own
ParseRanges == {[start |-> 10, end |-> 40], [start |-> 40, end |-> 41]}

InitParse ==
    /\ env = [v \in EnvVars |-> "sk-key"]
    /\ files \in {F \in SUBSET ParseCatalog : Cardinality(F) <= MaxParseLines}
    /\ clock = [day |-> 40, hour |-> 23]
    /\ usage_records = <<>>
    /\ sync_log = <<>>
    /\ pc = [t \in Tasks |-> "idle"]
    /\ exc = [t \in Tasks |-> ""]
    /\ work = [t \in Tasks |-> <<>>]
    /\ range = [t \in Tasks |-> [start |-> 0, end |-> 0]]
    /\ cur = [t \in Tasks |-> NoCall]
    /\ tx = [t \in Tasks |-> NoTx]
    /\ results = [t \in Tasks |-> <<>>]
    /\ passes = 0
    /\ appends = 0
    /\ ticks = 0
    /\ fetched = {}
    /\ produced = [p \in Registered |-> {}]
    /\ init_runs = <<>>
    /\ out = NoOut
    /\ sessions_dir = TRUE
    /\ model_pricing = seed_default_pricing(<<>>)
    /\ settings = seed_default_settings(<<>>)
    /\ locks = {}

\* the parse_sessions call of a provider's fetch_usage
Aggregate(p, r) ==
    /\ LET raw == parse_sessions(Scanned(sessions_dir, files), MODEL_PREFIXES(p), r.start, r.end, clock)
       IN  /\ produced' = [produced EXCEPT ![p] =
                             @ \cup {RowKey(raw[i]) : i \in 1..Len(raw)}]
           /\ out' = [op |-> "parse_sessions", args |-> <<p, r>>, at |-> clock,
                      result |-> raw]
    /\ fetched' = fetched \cup {p}
    /\ UNCHANGED <<shared, usage_records, sync_log, pc, exc, work, range, cur,
                   tx, results, passes, init_runs, sessions_dir,
                   model_pricing, settings, locks>>

NextParse ==
    \/ \E p \in Registered, r \in ParseRanges : Aggregate(p, r)
    \/ Tick

SpecParse == InitParse /\ [][NextParse]_vars

\* ------------------------- the aggregation called with any list of prefixes
\* prefix lists a caller may pass: none (all models), the prefixes of two
\* providers, and two prefixes of which one extends the other
PrefixLists ==
    { <<>>,
      << <<"claude-">>, <<"gemini-">> >>,
      << <<"kimi-">>, <<"kimi-", "claude-">> >> }

\* parse_sessions(model_prefixes, start_date, end_date)
AggregateWith(prefixes, r) ==
    /\ out' = [op |-> "parse_sessions(prefixes)", args |-> <<prefixes, r>>,
               at |-> clock,
               result |-> parse_sessions(Scanned(sessions_dir, files), prefixes,
                                         r.start, r.end, clock)]
    /\ UNCHANGED <<shared, usage_records, sync_log, pc, exc, work, range, cur,
                   tx, results, passes, fetched, produced, init_runs,
                   sessions_dir, model_pricing, settings, locks>>

NextPrefixes ==
    \/ \E prefixes \in PrefixLists, r \in ParseRanges : AggregateWith(prefixes, r)
    \/ Tick

SpecPrefixes == InitParse /\ [][NextPrefixes]_vars

\* ------------------------------ parse_single_session, parse_tool_calls
\* a timestamp written with a UTC offset of off hours: day and hour are the
\* instant in UTC, the text shows the local time followed by the offset
AtZone(day, hour, off) == [day |-> day, hour |-> hour, ok |-> TRUE, off |-> off]

Off(ts) == IF "off" \in DOMAIN ts THEN ts.off ELSE 0

\* the ISO text of a timestamp as (local date, local hour, offset suffix);
\* the suffixes order as strings: "+.." before "-..", then by digits
TsText(ts) ==
    <<ts.day + ((ts.hour + Off(ts)) \div 24),
      (ts.hour + Off(ts)) % 24,
      IF Off(ts) >= 0 THEN Off(ts) ELSE 24 - Off(ts)>>

\* ts < started_at on the two strings
TextLess(a, b) ==
    \E i \in 1..3 :
        TsText(a)[i] < TsText(b)[i] /\ \A j \in 1..(i - 1) : TsText(a)[j] = TsText(b)[j]

\* a line whose message.content holds toolCall items with these names
WithContent(line, tools) ==
    [f \in DOMAIN line \cup {"content"} |->
        IF f = "content" THEN tools ELSE line[f]]

ContentOf(l) == IF "content" \in DOMAIN l THEN l.content ELSE <<>>

TOOL_MAPPING ==
    [web_search |-> "brave", web_fetch |-> "brave", browser |-> "browser",
     exec |-> "system", read |-> "system", write |-> "system",
     edit |-> "system", image |-> "image", sessions_spawn |-> "orchestration",
     sessions_send |-> "orchestration", subagents |-> "orchestration",
     memory_search |-> "memory", memory_get |-> "memory"]

\* TOOL_MAPPING.get(tool_name, "other")
ToolCategory(name) ==
    IF name \in DOMAIN TOOL_MAPPING THEN TOOL_MAPPING[name] ELSE "other"

SessionCatalog ==
    { Line(Live1, 0, "array", "", "", FALSE, NoProvider, NoModel,
           NoTs, 0, 0, 0, 0, 0),
      Line(Live1, 1, "object", "session", "", FALSE, NoProvider, NoModel,
           AtZone(40, 4, -5), 0, 0, 0, 0, 0),
      WithContent(Line(Live1, 2, "object", "message", "user", FALSE, NoProvider,
                       NoModel, At(40, 1), 0, 0, 0, 0, 0), <<"mystery">>),
      WithContent(Line(Live1, 3, "object", "message", "assistant", TRUE,
                       "anthropic", Claude, At(40, 2), 2, 1, 3, 1, 2),
                  <<"read", "mystery", "read">>),
      WithContent(Line(Live1, 4, "object", "message", "assistant", FALSE,
                       "anthropic", Claude, At(9, 3), 0, 0, 0, 0, 0),
                  <<"web_search">>),
      WithContent(Line(Reset2, 1, "object", "message", "assistant", TRUE,
                       "openrouter", Kimi, NoTs, 1, 1, 0, 0, 0), <<"exec">>) }

SessionFiles == {Live1, Reset2}

\* the lines of one file that the reading loop gets to
ReadLines(f, lines) ==
    {l \in lines : l.file = f /\ l.json = "object" /\ Reached(l, lines)}

\* parse_single_session: started_at is the least timestamp string seen
\* (NoTs stands for None),
\* message_count the assistant messages, by_model the usage per model with
\* the provider of the model's first usage line
parse_single_session(f, lines) ==
    LET R == ReadLines(f, lines)
        Stamped == {l \in R : l.ts.ok}
        Assistant == {l \in R : l.type = "message" /\ l.role = "assistant"}
        Usage == {l \in Assistant : l.usage}
        Of(m) == {l \in Usage : ModelOf(l) = m}
        First(m) == CHOOSE l \in Of(m) : \A o \in Of(m) : l.pos <= o.pos
    IN  [started_at |->
            IF Stamped = {} THEN NoTs
            ELSE (CHOOSE l \in Stamped :
                     \A o \in Stamped : ~ TextLess(o.ts, l.ts)).ts,
         message_count |-> Cardinality(Assistant),
         by_model |->
            [m \in {ModelOf(l) : l \in Usage} |->
                [provider |-> ProviderOf(First(m)),
                 input_tokens |-> SumOver(Of(m), "input"),
                 output_tokens |-> SumOver(Of(m), "output"),
                 cache_read_tokens |-> SumOver(Of(m), "cacheRead"),
                 cache_write_tokens |-> SumOver(Of(m), "cacheWrite"),
                 request_count |-> Cardinality(Of(m))]]]

\* the toolCall items parse_tool_calls counts, as (line, index) pairs
ToolItems(lines, start, end, now) ==
    {<<l, i>> \in lines \X (1..MaxItems) :
        /\ i <= Len(ContentOf(l))
        /\ Occurrences(l.file) > 0
        /\ l.json = "object"
        /\ Reached(l, lines)
        /\ l.type = "message"
        /\ _parse_date_hour(l.ts, now).date >= start
        /\ _parse_date_hour(l.ts, now).date <= end}

ToolKey(l, i, now) ==
    <<ToolCategory(ContentOf(l)[i]), ContentOf(l)[i],
      _parse_date_hour(l.ts, now).date, _parse_date_hour(l.ts, now).hour>>

\* the order of Python's sorted() on the category and tool names
CategoryOrder ==
    <<"brave", "browser", "image", "memory", "orchestration", "other", "system">>
ToolOrder == <<"exec", "mystery", "read", "web_search">>

ToolKeyLess(a, b) ==
    LET ra == <<Rank(a[1], CategoryOrder), Rank(a[2], ToolOrder), a[3], a[4]>>
        rb == <<Rank(b[1], CategoryOrder), Rank(b[2], ToolOrder), b[3], b[4]>>
    IN  \E i \in 1..4 : ra[i] < rb[i] /\ \A j \in 1..(i - 1) : ra[j] = rb[j]

RECURSIVE SortToolKeys(_)
SortToolKeys(K) ==
    IF K = {} THEN <<>>
    ELSE LET m == CHOOSE k \in K : \A o \in K \ {k} : ToolKeyLess(k, o)
         IN  <<m>> \o SortToolKeys(K \ {m})

RECURSIVE CountItems(_)
CountItems(S) ==
    IF S = {} THEN 0
    ELSE LET x == CHOOSE y \in S : TRUE
         IN  Occurrences(x[1].file) + CountItems(S \ {x})

\* parse_tool_calls: one dict per (category, tool_name, date, hour)
parse_tool_calls(lines, start, end, now) ==
    LET T == ToolItems(lines, start, end, now)
        keys == SortToolKeys({ToolKey(x[1], x[2], now) : x \in T})
    IN  [n \in 1..Len(keys) |->
            [provider |-> keys[n][1],
             tool_name |-> keys[n][2],
             date |-> keys[n][3],
             hour |-> keys[n][4],
             call_count |->
                CountItems({x \in T : ToolKey(x[1], x[2], now) = keys[n]})]]

InitSession ==
    /\ env = [v \in EnvVars |-> "sk-key"]
    /\ files \in {F \in SUBSET SessionCatalog : Cardinality(F) <= MaxSessionLines}
    /\ clock = [day |-> 40, hour |-> 23]
    /\ usage_records = <<>>
    /\ sync_log = <<>>
    /\ pc = [t \in Tasks |-> "idle"]
    /\ exc = [t \in Tasks |-> ""]
    /\ work = [t \in Tasks |-> <<>>]
    /\ range = [t \in Tasks |-> [start |-> 0, end |-> 0]]
    /\ cur = [t \in Tasks |-> NoCall]
    /\ tx = [t \in Tasks |-> NoTx]
    /\ results = [t \in Tasks |-> <<>>]
    /\ passes = 0
    /\ appends = 0
    /\ ticks = 0
    /\ fetched = {}
    /\ produced = [p \in Registered |-> {}]
    /\ init_runs = <<>>
    /\ out = NoOut
    /\ sessions_dir = TRUE
    /\ model_pricing = seed_default_pricing(<<>>)
    /\ settings = seed_default_settings(<<>>)
    /\ locks = {}

SingleSession(f) ==
    /\ out' = [op |-> "parse_single_session", args |-> <<f>>, at |-> clock,
               result |-> parse_single_session(f, files)]
    /\ UNCHANGED <<shared, usage_records, sync_log, pc, exc, work, range, cur,
                   tx, results, passes, fetched, produced, init_runs,
                   sessions_dir, model_pricing, settings, locks>>

ToolCalls(r) ==
    /\ out' = [op |-> "parse_tool_calls", args |-> <<r>>, at |-> clock,
               result |-> parse_tool_calls(files, r.start, r.end, clock)]
    /\ UNCHANGED <<shared, usage_records, sync_log, pc, exc, work, range, cur,
                   tx, results, passes, fetched, produced, init_runs,
                   sessions_dir, model_pricing, settings, locks>>

NextSession ==
    \/ \E f \in SessionFiles : SingleSession(f)
    \/ \E r \in ParseRanges : ToolCalls(r)
    \/ Tick

SpecSession == InitSession /\ [][NextSession]_vars

\* ------------------------------------------------- the session cost alert
Live4 == <<"s4", "jsonl">>
SessionIds == {"s1", "s4"}

\* the lines of the live session files when the alert is checked: s1 with a
\* model that has no pricing row and one that has, s4 with a model that has
\* none
AlertCatalog ==
    { Line(Live1, 4, "object", "message", "assistant", TRUE, "moonshot", Moon,
           At(40, 8), 1, 1, 1, 1, 1),
      Line(Live1, 6, "object", "message", "assistant", TRUE, "anthropic", Opus,
           At(40, 9), 2, 1, 0, 0, 0),
      Line(Live4, 1, "object", "message", "assistant", TRUE, "google", Gemini,
           At(40, 8), 3, 1, 0, 0, 0) }

\* str() of the JSON value of a settings request, and str.lower()
str(v) == CASE v = "true" -> "True" [] v = "false" -> "False" [] OTHER -> v
lower(v) == CASE v = "True" -> "true" [] v = "False" -> "false" [] OTHER -> v

\* float() of the threshold setting, in millionths of a dollar; a string
\* that is no number raises ValueError
float(v) ==
    CASE v = "5.0" -> [raised |-> FALSE, value |-> 5000000]
      [] v = "0" -> [raised |-> FALSE, value |-> 0]
      [] OTHER -> [raised |-> TRUE, value |-> 0]

\* _find_active_session: the session files next to which a lock file
\* stands; glob yields the lock files in directory order, so any of the
\* files may be the one returned, and None is returned when there is none
NoActive == <<>>
ActiveCandidates(exists, lines, locked) ==
    IF ~ exists THEN {}
    ELSE {<<x, "jsonl">> : x \in {x \in locked :
                                    \E l \in lines : l.file = <<x, "jsonl">>}}

RECURSIVE SumCost(_, _)
SumCost(cost, S) ==
    IF S = {} THEN 0
    ELSE LET m == CHOOSE x \in S : TRUE
         IN  cost[m].cost + SumCost(cost, S \ {m})

\* get_current_session_data: the totals of the active session; the cost of
\* every model that has a pricing row comes from estimate_cost, called with
\* six positional arguments; total_cost is in units of 10^-10 dollar
get_current_session_data(active, lines, pricing, table) ==
    IF active = NoActive
    THEN [raised |-> FALSE, err |-> "", status |-> "no_active_session",
          session_id |-> "", warning |-> FALSE, estimated_cost_usd |-> 0]
    ELSE LET parsed == parse_single_session(active, lines)
             threshold == float(get_setting(table, "session_cost_warning_usd", "5.0"))
             priced == {m \in DOMAIN parsed.by_model : m \in DOMAIN pricing}
             cost == [m \in priced |->
                        estimate_cost(<<m, pricing[m],
                                        parsed.by_model[m].input_tokens,
                                        parsed.by_model[m].output_tokens,
                                        parsed.by_model[m].cache_read_tokens,
                                        parsed.by_model[m].cache_write_tokens>>)]
         IN  IF threshold.raised
             THEN [raised |-> TRUE, err |-> "ValueError", status |-> "",
                   session_id |-> active[1], warning |-> FALSE,
                   estimated_cost_usd |-> 0]
             ELSE IF \E m \in priced : cost[m].raised
             THEN [raised |-> TRUE, err |-> "TypeError", status |-> "",
                   session_id |-> active[1], warning |-> FALSE,
                   estimated_cost_usd |-> 0]
             ELSE [raised |-> FALSE, err |-> "", status |-> "ok",
                   session_id |-> active[1],
                   warning |-> SumCost(cost, priced) \div 10000 >= threshold.value,
                   estimated_cost_usd |-> SumCost(cost, priced)]

\* check_and_alert on the connection of a caller that commits when the
\* function returns; ok is what send_telegram_alert returns.  tried: the
\* send was called; sent: it returned True; table: the settings afterwards
check_and_alert(table, active, lines, pricing, ok) ==
    LET enabled ==
            lower(get_setting(table, "alert_telegram_enabled", "false")) = "true"
        session == get_current_session_data(active, lines, pricing, table)
        Ret(status, tried, sent, after) ==
            [raised |-> FALSE, status |-> status, tried |-> tried,
             sent |-> sent, table |-> after]
    IN  IF ~ enabled THEN Ret("disabled", FALSE, FALSE, table)
        ELSE IF session.raised
             THEN [raised |-> TRUE, status |-> session.err, tried |-> FALSE,
                   sent |-> FALSE, table |-> table]
        ELSE IF session.status = "no_active_session"
             THEN Ret("no_session", FALSE, FALSE, table)
        ELSE IF ~ session.warning THEN Ret("ok", FALSE, FALSE, table)
        ELSE IF get_setting(table, "alert_last_session_id", "") = session.session_id
             THEN Ret("already_alerted", FALSE, FALSE, table)
        ELSE IF ok
             THEN Ret("alerted", TRUE, TRUE,
                      set_setting(table, "alert_last_session_id", session.session_id))
        ELSE Ret("alert_failed", TRUE, FALSE, table)

\* the number of the last check, and the successful alerts of the run of
\* consecutive checks on one session that the last check belongs to
LastCheck == IF out.op = "check_and_alert" THEN out.args[2] ELSE 0
RunAlerts(active) ==
    IF out.op = "check_and_alert" /\ out.args[1] = active
    THEN out.result.run_alerts ELSE 0

\* one check of the active session
CheckAndAlert(ok) ==
    /\ LastCheck < MaxChecks
    /\ \E active \in IF ActiveCandidates(sessions_dir, files, locks) = {}
                      THEN {NoActive}
                      ELSE ActiveCandidates(sessions_dir, files, locks) :
          LET r == check_and_alert(settings, active, files, model_pricing, ok)
          IN  /\ settings' = r.table
              /\ out' = [op |-> "check_and_alert",
                         args |-> <<active, LastCheck + 1>>, at |-> clock,
                         result |-> [raised |-> r.raised, status |-> r.status,
                                     tried |-> r.tried, sent |-> r.sent,
                                     settings |-> r.table,
                                     run_alerts |-> RunAlerts(active)
                                         + (IF r.sent THEN 1 ELSE 0)]]
    /\ UNCHANGED <<shared, usage_records, sync_log, pc, exc, work, range, cur,
                   tx, results, passes, fetched, produced, init_runs,
                   sessions_dir, model_pricing, locks>>

\* the bodies of POST /api/settings: a JSON object of keys and values
SettingsBodies ==
    { [k \in {"alert_telegram_enabled"} |-> "true"],
      [k \in {"alert_telegram_enabled"} |-> "false"],
      [k \in {"session_cost_warning_usd"} |-> "0"],
      [k \in {"session_cost_warning_usd"} |-> "5.0"] }

\* POST /api/settings: every key of the body is set to str(value)
update_settings(body) ==
    /\ \A t \in Tasks : tx[t] = NoTx
    /\ settings' = [k \in DOMAIN settings \cup DOMAIN body |->
                       IF k \in DOMAIN body THEN str(body[k]) ELSE settings[k]]
    /\ UNCHANGED <<shared, usage_records, sync_log, pc, exc, work, range, cur,
                   tx, results, passes, fetched, produced, init_runs, out,
                   sessions_dir, model_pricing, locks>>

\* the agent runtime puts a lock file next to a session file, or removes it
Lock(x) ==
    /\ x \notin locks
    /\ locks' = locks \cup {x}
    /\ UNCHANGED <<shared, usage_records, sync_log, pc, exc, work, range, cur,
                   tx, results, passes, fetched, produced, init_runs, out,
                   sessions_dir, model_pricing, settings>>

Unlock(x) ==
    /\ x \in locks
    /\ locks' = locks \ {x}
    /\ UNCHANGED <<shared, usage_records, sync_log, pc, exc, work, range, cur,
                   tx, results, passes, fetched, produced, init_runs, out,
                   sessions_dir, model_pricing, settings>>

InitAlert ==
    /\ env = [v \in EnvVars |-> "sk-key"]
    /\ files \in SUBSET AlertCatalog
    /\ clock = [day |-> 40, hour |-> 23]
    /\ usage_records = <<>>
    /\ sync_log = <<>>
    /\ pc = [t \in Tasks |-> "idle"]
    /\ exc = [t \in Tasks |-> ""]
    /\ work = [t \in Tasks |-> <<>>]
    /\ range = [t \in Tasks |-> [start |-> 0, end |-> 0]]
    /\ cur = [t \in Tasks |-> NoCall]
    /\ tx = [t \in Tasks |-> NoTx]
    /\ results = [t \in Tasks |-> <<>>]
    /\ passes = 0
    /\ appends = 0
    /\ ticks = 0
    /\ fetched = {}
    /\ produced = [p \in Registered |-> {}]
    /\ init_runs = <<>>
    /\ out = NoOut
    /\ sessions_dir = TRUE
    /\ model_pricing = seed_default_pricing(<<>>)
    /\ settings = seed_default_settings(<<>>)
    /\ locks = {}

NextAlert ==
    \/ \E ok \in BOOLEAN : CheckAndAlert(ok)
    \/ \E body \in SettingsBodies : update_settings(body)
    \/ \E x \in SessionIds : Lock(x)
    \/ \E x \in SessionIds : Unlock(x)
    \/ \E l \in LineCatalog : AppendLine(l)

SpecAlert == InitAlert /\ [][NextAlert]_vars

\* ------------------------------------------------------------ properties
FetchErrors == {"TypeError", "KeyError"}
Logged == {"err_logged", "ok_logged"}

\* the task takes a step of its pass
Stepped(t) == <<pc[t], work[t], results[t]>>' # <<pc[t], work[t], results[t]>>

\* the running sync_provider call of the task returns to its caller
Returns(t) == Len(results'[t]) = Len(results[t]) + 1

Last(seq) == seq[Len(seq)]

\* the task is about to run sync_provider on a registered provider whose
\* key variable is blank
SkipCase(t) ==
    /\ pc[t] = "call"
    /\ Head(work[t]) \in Registered
    /\ strip(env[KeyVar(Head(work[t]))]) = ""

\* the task is about to run sync_provider on a name that is not registered
UnknownCase(t) == pc[t] = "call" /\ Head(work[t]) \notin Registered

HasLog(p, status) ==
    \E j \in 1..Len(sync_log) :
        sync_log[j].provider = p /\ sync_log[j].status = status

\* C2: in a sync_all pass the exception of a fetch never ends the pass: an
\* "error" row is logged for the provider, a pass that completes has run
\* sync_provider for every registered provider in order, and each
\* provider's outcome is the one its own lines give, whatever the other
\* providers' fetches did.
C2_FetchFailureIsolated ==
    \A t \in SyncAllTasks :
        /\ pc[t] = "raised" => exc[t] \notin FetchErrors
        /\ pc[t] = "done" => Len(results[t]) = Len(ALL_PROVIDERS)
        /\ \A i \in 1..Len(results[t]) :
              /\ results[t][i].provider = ALL_PROVIDERS[i]
              /\ results[t][i].status = "error" =>
                    HasLog(results[t][i].provider, "error")
              /\ Outcome(results[t][i].status, results[t][i].records)
                    = results[t][i].alone

C2_Witness ==
    \E t \in SyncAllTasks :
        /\ pc[t] = "done"
        /\ \E i \in 1..Len(results[t]) :
              /\ results[t][i].status = "error"
              /\ \E j \in (i + 1)..Len(results[t]) :
                    results[t][j].status \in {"ok", "error"}

\* C3 (as claimed): when a store write fails during one provider's sync in
\* a sync_all pass, only that provider's attempt is lost: the pass goes on
\* to every later provider, so a pass never ends with a later provider
\* still to be synced.
C3_Claim ==
    \A t \in SyncAllTasks : pc[t] = "raised" => Len(work[t]) <= 1

\* C4: a sync_provider call on a registered provider that is not configured
\* returns "skipped", calls no fetch_usage and writes nothing to
\* usage_records, committed or pending.
C4_SkippedNoFetchNoWrite ==
    [][\A t \in Tasks :
          (SkipCase(t) /\ Stepped(t)) =>
              /\ Returns(t)
              /\ Last(results'[t]).provider = Head(work[t])
              /\ Last(results'[t]).status = "skipped"
              /\ fetched' = fetched
              /\ usage_records' = usage_records
              /\ tx'[t].usage = tx[t].usage]_vars

C4_Witness ==
    \E t \in Tasks : \E i \in 1..Len(results[t]) :
        /\ results[t][i].status = "skipped"
        /\ results[t][i].provider \notin fetched

\* C5 (as claimed): every sync attempt on a registered provider that is not
\* configured leaves a "skipped" entry for that provider in sync_log.
C5_Claim ==
    \A t \in Tasks : \A i \in 1..Len(results[t]) :
        results[t][i].status = "skipped" =>
            HasLog(results[t][i].provider, "skipped")

\* C5 (amended): a sync_provider call on a registered provider that is not
\* configured returns "skipped" to its caller and leaves sync_log, and the
\* pending writes of every connection, as they were; every row of sync_log
\* has status "ok" or "error".
C5_SkippedNotLogged ==
    [][/\ \A t \in Tasks :
             (SkipCase(t) /\ Stepped(t)) =>
                 /\ Last(results'[t]).status = "skipped"
                 /\ sync_log' = sync_log
                 /\ tx' = tx
       /\ \A j \in 1..Len(sync_log') :
             sync_log'[j].status \in {"ok", "error"}]_vars

C5_Witness ==
    \E t \in SyncAllTasks :
        /\ pc[t] = "done"
        /\ \E i \in 1..Len(results[t]) :
              /\ results[t][i].status = "skipped"
              /\ \A j \in 1..Len(sync_log) :
                    sync_log[j].provider # results[t][i].provider
        /\ \E i \in 1..Len(results[t]) :
              /\ results[t][i].status \in {"ok", "error"}
              /\ HasLog(results[t][i].provider, results[t][i].status)

\* C6: a sync_provider call with a name that no registered provider has
\* returns "error" and touches nothing: no fetch, no row written or pending
\* in usage_records or sync_log.
C6_UnknownTouchesNothing ==
    [][\A t \in Tasks :
          (UnknownCase(t) /\ Stepped(t)) =>
              /\ Returns(t)
              /\ Last(results'[t]).provider = Head(work[t])
              /\ Last(results'[t]).status = "error"
              /\ usage_records' = usage_records
              /\ sync_log' = sync_log
              /\ tx' = tx
              /\ fetched' = fetched]_vars

C6_Witness ==
    \E i \in 1..Len(results["direct"]) :
        /\ results["direct"][i].provider = "tools"
        /\ results["direct"][i].status = "error"

\* the table holds one row at the bucket's key, with the bucket's counters
Counters ==
    {"input_tokens", "output_tokens", "cache_read_tokens", "cache_write_tokens",
     "real_tokens", "request_count", "estimated_cost_usd"}

Stored(table, b) ==
    /\ RowKey(b) \in DOMAIN table
    /\ \A c \in Counters : table[RowKey(b)][c] = b[c]

CallShape(t) ==
    /\ Len(tx[t].log) <= 1
    /\ pc[t] \in {"err_conn", "err_logged"} =>
          cur[t].raised /\ tx[t].usage = <<>>
    /\ pc[t] \in {"err_conn", "ok_conn"} => tx[t].log = <<>>
    /\ pc[t] = "err_logged" =>
          /\ Len(tx[t].log) = 1
          /\ tx[t].log[1].status = "error"
          /\ tx[t].log[1].provider = Head(work[t])
    /\ pc[t] \in {"ok_conn", "ok_logged"} =>
          /\ ~ cur[t].raised
          /\ Len(tx[t].usage) + Len(cur[t].remaining) = Len(cur[t].records)
    /\ pc[t] = "ok_logged" =>
          /\ cur[t].remaining = <<>>
          /\ tx[t].log = <<[provider |-> Head(work[t]), status |-> "ok",
                            message |-> OkMessage(tx[t].usage)]>>

\* C8: a sync_provider call on a configured provider goes from the fetch
\* either to one "error" row and no bucket, or through the upserts of all
\* fetched records to one "ok" row that carries their number; it returns
\* only after that one row is committed, and sync_log changes in no other
\* way.
C8_SyncStateMachine ==
    [][/\ \A t \in Tasks : CallShape(t)'
       /\ \A t \in Tasks :
             pc[t] \in {"err_conn", "ok_conn"} => ~ Returns(t)
       /\ \A t \in Tasks :
             (pc[t] \in Logged /\ Returns(t)) =>
                 /\ sync_log' = sync_log \o tx[t].log
                 /\ Last(results'[t]).status = tx[t].log[1].status
                 /\ Last(results'[t]).records = Len(tx[t].usage)
       /\ sync_log' # sync_log =>
             \E t \in Tasks : pc[t] \in Logged /\ Returns(t)]_vars

C8_Witness ==
    \E t \in Tasks : \E i, j \in 1..Len(results[t]) :
        /\ results[t][i].status = "error"
        /\ results[t][j].status = "ok"
        /\ HasLog(results[t][i].provider, "error")
        /\ HasLog(results[t][j].provider, "ok")

\* C10: the composite keys that the aggregations of two different
\* registered providers produce, over any files, date ranges and times,
\* have no key in common.
C10_ProviderKeysDisjoint ==
    \A p, q \in Registered :
        p # q => produced[p] \cap produced[q] = {}

C10_Witness ==
    \E p, q \in Registered :
        p # q /\ produced[p] # {} /\ produced[q] # {}

\* C11: sync_log is append-only: whatever sync_provider, sync_all or a
\* further init_db does, every row that was in sync_log stays where it was
\* with the same content, and the log changes only by rows added at its end.
C11_SyncLogAppendOnly ==
    [][/\ Len(sync_log') >= Len(sync_log)
       /\ SubSeq(sync_log', 1, Len(sync_log)) = sync_log]_vars

C11_Witness ==
    /\ Len(init_runs) = 1
    /\ Len(init_runs[1]) = Len(ALL_PROVIDERS)
    /\ Len(sync_log) = 2 * Len(ALL_PROVIDERS)
    /\ SubSeq(sync_log, 1, Len(ALL_PROVIDERS)) = init_runs[1]
    /\ pc["timer"] = "done"
    /\ ticks = 0
    /\ appends = 0

\* the last parsing call was a parse_sessions call
IsAgg == out.op = "parse_sessions"
AggPrefixes == MODEL_PREFIXES(out.args[1])
AggRange == out.args[2]

\* an assistant message line with a usage block
UsageEvent(l) ==
    l.json = "object" /\ l.type = "message" /\ l.role = "assistant" /\ l.usage

\* the line passes the model and date filters of the last call
InFilters(l) ==
    /\ \E i \in 1..Len(AggPrefixes) : startswith(ModelOf(l), AggPrefixes[i])
    /\ _parse_date_hour(l.ts, out.at).date >= AggRange.start
    /\ _parse_date_hour(l.ts, out.at).date <= AggRange.end

\* live, soft-deleted and reset files; lock markers
Variant(name) ==
    \/ Len(name) = 2 /\ name[2] = "jsonl"
    \/ Len(name) = 4 /\ name[2] = "jsonl" /\ name[3] \in {"deleted", "reset"}

LockMarker(name) == name[Len(name)] = "lock"

\* the line was folded into bucket b by the last call
Folded(l, b) ==
    /\ Qualifies(l, files, AggPrefixes, AggRange.start, AggRange.end, out.at)
    /\ AggKey(l, out.at) = RowKey(b)

HasBucket(k) == \E i \in 1..Len(out.result) : RowKey(out.result[i]) = k

\* neither a timestamp nor a non-zero token or cost field
EmptyEvent(l) ==
    /\ ~ l.ts.ok
    /\ l.input = 0 /\ l.output = 0 /\ l.cacheRead = 0 /\ l.cacheWrite = 0
    /\ l.cost = 0

RECURSIVE SumSeq(_, _)
SumSeq(seq, fld) ==
    IF seq = <<>> THEN 0 ELSE Head(seq)[fld] + SumSeq(Tail(seq), fld)

\* C12 (as claimed): two parse_sessions calls with the same filters over
\* the same file contents return the same buckets, at whatever times the
\* two calls are made.
C12_Claim ==
    [][(IsAgg /\ out'.op = "parse_sessions" /\ out'.args = out.args
          /\ files' = files)
       => out'.result = out.result]_vars

\* C13 (as claimed): no bucket of a parse_sessions result exists only
\* because of events that have neither a timestamp nor a non-zero token or
\* cost field: every bucket has folded in at least one other event.
C13_Claim ==
    IsAgg =>
        \A i \in 1..Len(out.result) :
            \E l \in files : Folded(l, out.result[i]) /\ ~ EmptyEvent(l)

C15_StrictlyAscendingKeys ==
    IsAgg =>
        \A i, j \in 1..Len(out.result) :
            i < j => KeyLess(RowKey(out.result[i]), RowKey(out.result[j]))

C15_Witness ==
    /\ IsAgg
    /\ Len(out.result) >= 2
    /\ \E i \in 1..Len(out.result) : out.result[i].request_count >= 2

\* C16: parse_sessions scans the live, soft-deleted and reset files and no
\* lock marker: the requests it counts are the usage events, passing the
\* filters, of the lines it reads in those files, an event of a reset or
\* deleted file counting as one of a live file does, and a line of a lock
\* marker never.
C16_ScansVariantsNotLocks ==
    IsAgg =>
        /\ SumSeq(out.result, "request_count")
             = Cardinality({l \in files :
                              /\ Variant(l.file)
                              /\ ~ LockMarker(l.file)
                              /\ Reached(l, files)
                              /\ UsageEvent(l)
                              /\ InFilters(l)})
        /\ \A i \in 1..Len(out.result) : \A l \in files :
              Folded(l, out.result[i]) => ~ LockMarker(l.file)

C16_Witness ==
    /\ IsAgg
    /\ \E l \in files : LockMarker(l.file) /\ UsageEvent(l) /\ InFilters(l)
    /\ \E l \in files :
          /\ l.file \in {Reset2, Deleted3}
          /\ \E i \in 1..Len(out.result) : Folded(l, out.result[i])

\* C17 (as claimed): a line that is not valid JSON, or is valid JSON of the
\* wrong shape, is skipped alone: every usage event of every other line of
\* the same file, before or after it, that passes the filters is in the
\* result parse_sessions returns.
C17_Claim ==
    IsAgg =>
        \A l \in files :
            (Variant(l.file) /\ UsageEvent(l) /\ InFilters(l))
                => HasBucket(AggKey(l, out.at))

\* the last parsing call was a parse_single_session call, on this file
IsSingle == out.op = "parse_single_session"
SingleFile == {l \in files : l.file = out.args[1]}

\* timestamp a is an earlier point in time than timestamp b
Earlier(a, b) == a.day < b.day \/ (a.day = b.day /\ a.hour < b.hour)

AssistantLine(l) ==
    l.json = "object" /\ l.type = "message" /\ l.role = "assistant"

RECURSIVE SumFun(_, _)
SumFun(f, fld) ==
    IF DOMAIN f = {} THEN 0
    ELSE LET k == CHOOSE x \in DOMAIN f : TRUE
         IN  f[k][fld] + SumFun([x \in DOMAIN f \ {k} |-> f[x]], fld)

\* C18 (as claimed): started_at is the earliest point in time among the
\* timestamps of all lines of the file, whatever their kind and order.
C18_Claim ==
    (IsSingle /\ \E l \in SingleFile : l.ts.ok) =>
        /\ out.result.started_at.ok
        /\ \A l \in SingleFile :
              l.ts.ok => ~ Earlier(l.ts, out.result.started_at)

\* C19 (as claimed): message_count is the number of assistant message
\* lines of the file, with or without a usage block, and the request
\* counts of by_model add up to the number of those that carry usage.
C19_Claim ==
    IsSingle =>
        /\ out.result.message_count
             = Cardinality({l \in SingleFile : AssistantLine(l)})
        /\ SumFun(out.result.by_model, "request_count")
             = Cardinality({l \in SingleFile : AssistantLine(l) /\ l.usage})

\* the tool invocations of the scanned files whose date is in the range of
\* the last parse_tool_calls call
Invocations ==
    {<<l, i>> \in files \X (1..MaxItems) :
        /\ i <= Len(ContentOf(l))
        /\ Variant(l.file)
        /\ l.json = "object"
        /\ l.type = "message"
        /\ _parse_date_hour(l.ts, out.at).date >= out.args[1].start
        /\ _parse_date_hour(l.ts, out.at).date <= out.args[1].end}

\* C20 (as claimed): the call counts of the buckets parse_tool_calls
\* returns add up to the number of tool invocations whose date is in the
\* range, and an invocation of a tool the mapping lacks is counted under
\* "other".
C20_Claim ==
    out.op = "parse_tool_calls" =>
        /\ SumSeq(out.result, "call_count") = Cardinality(Invocations)
        /\ \A x \in Invocations :
              ContentOf(x[1])[x[2]] \notin DOMAIN TOOL_MAPPING =>
                  \E n \in 1..Len(out.result) :
                      /\ out.result[n].provider = "other"
                      /\ out.result[n].tool_name = ContentOf(x[1])[x[2]]

\* C21: a sync_provider call on a configured provider whose fetch finds no
\* sessions root directory gets the empty result from the aggregation, with
\* no exception, and goes on to persist; when it returns, it returns "ok"
\* with zero records and usage_records is what it was.
C21_MissingRootSyncsOk ==
    [][\A t \in Tasks :
          /\ (pc[t] = "call" /\ pc'[t] # "call" /\ ~ sessions_dir
                /\ Head(work[t]) \in Registered
                /\ is_configured(Head(work[t]), env)) =>
                 /\ pc'[t] = "ok_conn"
                 /\ ~ cur'[t].raised
                 /\ cur'[t].raw = <<>>
                 /\ cur'[t].records = <<>>
                 /\ ~ cur'[t].root
          /\ (pc[t] \in {"ok_conn", "err_conn"} \cup Logged /\ ~ cur[t].root) =>
                 /\ pc[t] # "err_conn" /\ pc'[t] \notin {"err_conn", "err_logged"}
                 /\ usage_records' = usage_records
                 /\ Returns(t) =>
                        /\ Last(results'[t]).status = "ok"
                        /\ Last(results'[t]).records = 0
                        /\ Last(sync_log') = [provider |-> Head(work[t]),
                                              status |-> "ok",
                                              message |-> OkMessage(<<>>)]]_vars

\* a sync of a configured provider has returned "ok" with zero records while
\* the sessions directory is still missing
C21_Witness ==
    /\ ~ sessions_dir
    /\ \E t \in Tasks : \E i \in 1..Len(results[t]) :
          /\ results[t][i].provider \in Registered
          /\ results[t][i].status = "ok"
          /\ results[t][i].records = 0
          /\ HasLog(results[t][i].provider, "ok")
    /\ usage_records = <<>>

\* an init_db run takes place
InitRuns == Len(init_runs') = Len(init_runs) + 1

\* the rows init_db inserts into an empty model_pricing
Defaults == seed_default_pricing(<<>>)

Undated(l) == UsageEvent(l) /\ ~ l.ts.ok

\* C24 (as claimed): a usage event without a usable timestamp is left out
\* before folding: a parse_sessions result is what the same call returns
\* over the files without such events, so they neither change a counter
\* nor create a bucket.
C24_Claim ==
    IsAgg =>
        out.result = parse_sessions({l \in files : ~ Undated(l)}, AggPrefixes,
                                    AggRange.start, AggRange.end, out.at)

IsAggWith == out.op = "parse_sessions(prefixes)"

\* the prefixes of the last call that the model name of the line starts with
Matching(l) ==
    {i \in 1..Len(out.args[1]) : startswith(ModelOf(l), out.args[1][i])}

\* the lines the last call folded into bucket b
FoldedWith(b) ==
    {l \in files : /\ Qualifies(l, files, out.args[1], out.args[2].start,
                                 out.args[2].end, out.at)
                   /\ AggKey(l, out.at) = RowKey(b)}

RECURSIVE MatchSum(_)
MatchSum(S) ==
    IF S = {} THEN 0
    ELSE LET l == CHOOSE x \in S : TRUE
         IN  Cardinality(Matching(l)) + MatchSum(S \ {l})

RECURSIVE FieldSum(_, _)
FieldSum(S, fld) ==
    IF S = {} THEN 0
    ELSE LET l == CHOOSE x \in S : TRUE
         IN  l[fld] + FieldSum(S \ {l}, fld)

\* C25 (as claimed): in a call with a list of prefixes, every event counts
\* in its bucket once per prefix its model name starts with.
C25_Claim ==
    (IsAggWith /\ Len(out.args[1]) > 0) =>
        \A i \in 1..Len(out.result) :
            out.result[i].request_count = MatchSum(FoldedWith(out.result[i]))

\* C25: in a call with a list of prefixes, every event whose model name
\* starts with at least one of them counts in its bucket exactly once,
\* tokens and request alike, however many of the prefixes match.
C25_CountedOnce ==
    IsAggWith =>
        \A i \in 1..Len(out.result) :
            /\ out.result[i].request_count = Cardinality(FoldedWith(out.result[i]))
            /\ out.result[i].input_tokens = FieldSum(FoldedWith(out.result[i]), "input")
            /\ out.result[i].output_tokens = FieldSum(FoldedWith(out.result[i]), "output")
            /\ out.result[i].cache_read_tokens =
                   FieldSum(FoldedWith(out.result[i]), "cacheRead")

\* a call has returned a bucket that folded an event matching two of the
\* prefixes of the call
C25_Witness ==
    /\ IsAggWith
    /\ \E i \in 1..Len(out.result) : \E l \in FoldedWith(out.result[i]) :
          /\ Cardinality(Matching(l)) = 2
          /\ out.result[i].request_count = 1

\* C26 (as claimed): the fetch_usage call of a configured provider returns
\* without raising one record per bucket of its aggregation, and a
\* sync_provider call whose aggregation had a bucket returns "ok" with a
\* record count of at least one.
C26_Claim ==
    [][\A t \in Tasks :
          /\ (pc[t] = "call" /\ pc'[t] \in {"ok_conn", "err_conn"}) =>
                 /\ ~ cur'[t].raised
                 /\ Len(cur'[t].records) = Len(cur'[t].raw)
          /\ (Returns(t) /\ Len(cur[t].raw) >= 1) =>
                 /\ Last(results'[t]).status = "ok"
                 /\ Last(results'[t]).records >= 1]_vars

\* the task takes a step of its sync_provider call
Acts(t) == pc'[t] # pc[t] \/ tx'[t] # tx[t]

\* C27: the writes of the persisting block of a sync_provider call reach
\* the tables at its commit or not at all: every step of the block that is
\* not the committed return leaves usage_records and sync_log as they are,
\* and an exception raised in the block, by an upsert, by the insert of the
\* outcome or by the commit, discards every write the call had pending.
C27_AllOrNothing ==
    [][\A t \in Tasks :
          pc[t] \in {"ok_conn", "ok_logged"} =>
              /\ (Acts(t) /\ ~ Returns(t)) =>
                     /\ usage_records' = usage_records
                     /\ sync_log' = sync_log
              /\ pc'[t] = "raised" =>
                     /\ tx'[t] = NoTx
                     /\ usage_records' = usage_records
                     /\ sync_log' = sync_log]_vars

\* a call has lost its pending "ok" row to a failed commit, and sync_log has
\* no "ok" row for its provider
C27_Witness ==
    \E t \in Tasks :
        /\ pc[t] = "raised"
        /\ Len(cur[t].lost.log) = 1
        /\ cur[t].lost.log[1].status = "ok"
        /\ ~ HasLog(Head(work[t]), "ok")
        /\ tx[t] = NoTx

\* a check_and_alert call takes place; the one before it, if any, was on
\* the same session and the settings are as that call left them
Checked == out'.op = "check_and_alert" /\ out' # out
SameRun ==
    /\ out.op = "check_and_alert"
    /\ out.args[1] # NoActive
    /\ out'.args[1] = out.args[1]
    /\ settings = out.result.settings

\* after a successful send the marker is the id of the session
MarkerSet ==
    (Checked /\ out'.result.sent) =>
        /\ out'.result.status = "alerted"
        /\ settings'["alert_last_session_id"] = out'.args[1][1]

\* the check that follows an alert for the session, or an answer
\* "already_alerted", on the same session answers "already_alerted" and
\* does not call the send
StaysAlerted ==
    (Checked /\ SameRun /\ out.result.status \in {"alerted", "already_alerted"}) =>
        /\ out'.result.status = "already_alerted"
        /\ ~ out'.result.tried

\* a check that does not end in a successful send leaves the marker alone
MarkerKept ==
    (Checked /\ out'.result.status \in {"disabled", "no_session", "alert_failed"}) =>
        settings' = settings

\* C30 (as claimed): over a run of consecutive checks on one session at
\* most one alert is sent successfully; a successful send sets
\* alert_last_session_id to the id of the session, the following checks of
\* that session return "already_alerted" without sending, and a check that
\* finds the alert disabled, no active session or a failing send leaves
\* alert_last_session_id unchanged.
C30_Claim ==
    [][/\ Checked => out'.result.run_alerts <= 1
       /\ MarkerSet
       /\ StaysAlerted
       /\ MarkerKept]_vars

====
